---- MODULE Spec2Model ----
(***************************************************************************)
(* Model of streamlit_trauma_mods.py: a Streamlit script that is re-run    *)
(* from top to bottom on every user interaction.  One server process, one  *)
(* cached model resource, a sequence of script runs.  Each run loads the   *)
(* model (through st.cache_resource), reads the ten widgets, and, when the *)
(* Predict button was pressed and a model is loaded, assembles the feature *)
(* record, calls predict_proba, classifies the risk tier, renders the      *)
(* result card and advisory message, and computes and plots SHAP values.   *)
(* Probabilities are represented in hundredths (0.2 is 20, 0.5 is 50);     *)
(* temperature and BUN, whose widgets step by 0.1, in tenths.              *)
(***************************************************************************)
EXTENDS Integers, Sequences, FiniteSets, TLC

\* ---------------------------------------------------------------- bounds
\* number of times an uncached load_model call may raise and be retried
MaxRetries == 2

\* ------------------------------------------------------ program constants
\* line 50: the path handed to joblib.load
LoadPath == "rf_mods_model.joblib"
\* line 48: the file the comment tells the operator to place next to the script
DocPath == "rf_model_new.joblib"
\* line 53: the file the not-found error message names
ErrorPath == "rf_model_new.joblib"
\* line 176 / 192: 0.2 in hundredths
ModerateThreshold == 20
\* line 173 / 194: 0.5 in hundredths
HighThreshold == 50

NoPath == "no_path"
Empty == "empty"
Unset == "unset"
NoModel == "None"
RF == "RandomForest"

FileNames == {LoadPath, DocPath}

\* sampled widget values, inside each widget's declared range (lines 78-110)
AgeValues == {50, 120}
TempValues == {370, 450}
SbpValues == {110, 40}
PlateletValues == {200, 1000}
BunValues == {200, 2000}
RissValues == {15, 75}
SofaValues == {5, 24}
YesNo == {"No", "Yes"}

\* sampled return values of predict_proba(...)[0, 1], in hundredths
ProbValues == {0, 19, 20, 21, 49, 50, 100}

\* lines 136-145: the column names of the one-row DataFrame
Columns ==
  << "platelets_min", "riss", "sbp_min", "bun_max", "temperature_max",
     "admission_age", "renal", "invasive_line_1stday", "mechvent",
     "sofa_1stday" >>

VARIABLES
  files,          \* model files present in the script's directory
  cache,          \* st.cache_resource entry of load_model: Empty, NoModel or RF
  loads,          \* number of joblib.load calls made by the process
  opened,         \* path of the last joblib.load call
  buttonShown,    \* the page of the previous run shows the Predict button
  pc,             \* position of the current run in the script
  clicked,        \* this run was triggered by a click on Predict
  cacheHit,       \* this run got load_model's value from the cache
  loadError,      \* file named by the st.error of load_model in this run
  model,          \* module-level `model`
  w,              \* the values returned by the ten widgets
  renal, invasive_line, mech_vent,
  predict_btn,
  input_data,     \* the row of the DataFrame
  columns,        \* the columns of the DataFrame
  prediction_prob,
  risk_label,
  color,
  advisory,       \* which threshold message was shown
  stages,         \* the pipeline stages executed by this run, in order
  calls,          \* predict_proba calls of this run
  raisedIn,       \* the step of the try block that raised, if any
  propagated,     \* an exception escaped the script run
  col2,           \* elements rendered in the result column by this run
  page            \* elements rendered after the columns by this run

vars == << files, cache, loads, opened, buttonShown, pc, clicked, cacheHit,
           loadError, model, w, renal, invasive_line, mech_vent, predict_btn,
           input_data, columns, prediction_prob, risk_label, color, advisory,
           stages, calls, raisedIn, propagated, col2, page >>

envVars == << files, cache, loads, opened >>
formVars == << w, renal, invasive_line, mech_vent, predict_btn >>
frameVars == << input_data, columns >>
resultVars == << prediction_prob, risk_label, color, advisory >>

NoWidgets ==
  [ age |-> 0, temp |-> 0, sbp |-> 0, platelets |-> 0, bun |-> 0, riss |-> 0,
    sofa |-> 0, renal_input |-> "No", inv_line_input |-> "No",
    mech_vent_input |-> "No" ]

WidgetValues ==
  [ age : AgeValues, temp : TempValues, sbp : SbpValues,
    platelets : PlateletValues, bun : BunValues, riss : RissValues,
    sofa : SofaValues, renal_input : YesNo, inv_line_input : YesNo,
    mech_vent_input : YesNo ]

\* ----------------------------------------------------------- pure parts

\* lines 102, 106, 110:  1 if <selection> == "Yes" else 0
IndicatorInverted(sel) == IF sel = "No" THEN 1 ELSE 0

Indicator(sel) == IF sel = "Yes" THEN 1 ELSE 0

\* lines 124-134: the row, in the order the values are listed
InputDataSwapped(wd, rn, il, mv) ==
  << wd.platelets, wd.riss, wd.bun, wd.sbp, wd.temp, wd.age, rn, il, mv,
     wd.sofa >>

InputData(wd, rn, il, mv) ==
  << wd.platelets, wd.riss, wd.sbp, wd.bun, wd.temp, wd.age, rn, il, mv,
     wd.sofa >>

\* lines 171-178: the label cascade
RiskLabelStrict(p) ==
  IF p > HighThreshold THEN "High Risk"
  ELSE IF p > ModerateThreshold THEN "Moderate Risk"
  ELSE "Low Risk"

RiskLabel(p) ==
  IF p >= HighThreshold THEN "High Risk"
  ELSE IF p >= ModerateThreshold THEN "Moderate Risk"
  ELSE "Low Risk"

\* lines 171-178: the colour set together with the label
Color(p) ==
  IF p >= HighThreshold THEN "red"
  ELSE IF p >= ModerateThreshold THEN "#ffcc00"
  ELSE "green"

\* lines 192-197: the message cascade
AdvisoryInclusive(p) ==
  IF p <= ModerateThreshold THEN "success_low"
  ELSE IF p <= HighThreshold THEN "warning_moderate"
  ELSE "error_high"

Advisory(p) ==
  IF p < ModerateThreshold THEN "success_low"
  ELSE IF p < HighThreshold THEN "warning_moderate"
  ELSE "error_high"

\* line 46: st.cache_resource stores whatever load_model returned
CacheStoreSkipNone(c, result) == IF result = NoModel THEN c ELSE result

CacheStore(c, result) == result

\* ------------------------------------------------------------- the state

Init ==
  /\ files \in SUBSET FileNames
  /\ cache = Empty
  /\ loads = 0
  /\ opened = NoPath
  /\ buttonShown = FALSE
  /\ pc = "idle"
  /\ clicked = FALSE
  /\ cacheHit = FALSE
  /\ loadError = NoPath
  /\ model = Unset
  /\ w = NoWidgets
  /\ renal = 0
  /\ invasive_line = 0
  /\ mech_vent = 0
  /\ predict_btn = FALSE
  /\ input_data = << >>
  /\ columns = << >>
  /\ prediction_prob = -1
  /\ risk_label = Unset
  /\ color = Unset
  /\ advisory = Unset
  /\ stages = << >>
  /\ calls = 0
  /\ raisedIn = "none"
  /\ propagated = FALSE
  /\ col2 = {}
  /\ page = {}

\* the operator of the host puts a model file into the script's directory
PlaceFile ==
  /\ pc \in {"idle", "done"}
  /\ \E f \in FileNames \ files : files' = files \cup {f}
  /\ UNCHANGED << cache, loads, opened, buttonShown, pc, clicked, cacheHit,
                  loadError, model, formVars, frameVars, resultVars, stages,
                  calls, raisedIn, propagated, col2, page >>

\* ... or takes one away
RemoveFile ==
  /\ pc \in {"idle", "done"}
  /\ \E f \in files : files' = files \ {f}
  /\ UNCHANGED << cache, loads, opened, buttonShown, pc, clicked, cacheHit,
                  loadError, model, formVars, frameVars, resultVars, stages,
                  calls, raisedIn, propagated, col2, page >>

\* Streamlit starts a run of the script: a page load, a widget change, or a
\* click on the Predict button of the page the previous run rendered
StartRun ==
  /\ pc \in {"idle", "done"}
  /\ pc' = "load"
  /\ clicked' \in (IF buttonShown THEN BOOLEAN ELSE {FALSE})
  /\ cacheHit' = FALSE
  /\ loadError' = NoPath
  /\ model' = Unset
  /\ w' = NoWidgets
  /\ renal' = 0
  /\ invasive_line' = 0
  /\ mech_vent' = 0
  /\ predict_btn' = FALSE
  /\ input_data' = << >>
  /\ columns' = << >>
  /\ prediction_prob' = -1
  /\ risk_label' = Unset
  /\ color' = Unset
  /\ advisory' = Unset
  /\ stages' = << >>
  /\ calls' = 0
  /\ raisedIn' = "none"
  /\ propagated' = FALSE
  /\ col2' = {}
  /\ page' = {}
  /\ UNCHANGED << envVars, buttonShown >>

\* line 56 with a cache entry: load_model's body is not executed
LoadCached ==
  /\ pc = "load"
  /\ cache # Empty
  /\ model' = cache
  /\ cacheHit' = TRUE
  /\ pc' = "form"
  /\ UNCHANGED << envVars, buttonShown, clicked, loadError, formVars,
                  frameVars, resultVars, stages, calls, raisedIn, propagated,
                  col2, page >>

\* lines 49-51: joblib.load returns the model
LoadFound ==
  /\ pc = "load"
  /\ cache = Empty
  /\ LoadPath \in files
  /\ loads' = loads + 1
  /\ opened' = LoadPath
  /\ model' = RF
  /\ cache' = CacheStore(cache, RF)
  /\ pc' = "form"
  /\ UNCHANGED << files, buttonShown, clicked, cacheHit, loadError, formVars,
                  frameVars, resultVars, stages, calls, raisedIn, propagated,
                  col2, page >>

\* lines 52-54: joblib.load raises FileNotFoundError
LoadNotFound ==
  /\ pc = "load"
  /\ cache = Empty
  /\ LoadPath \notin files
  /\ loads' = loads + 1
  /\ opened' = LoadPath
  /\ loadError' = ErrorPath
  /\ model' = NoModel
  /\ cache' = CacheStore(cache, NoModel)
  /\ pc' = "form"
  /\ UNCHANGED << files, buttonShown, clicked, cacheHit, formVars, frameVars,
                  resultVars, stages, calls, raisedIn, propagated, col2,
                  page >>

\* line 50 raising anything but FileNotFoundError (an unreadable or
\* incompatible file): no except clause matches, nothing is cached, and the
\* exception ends the run at line 56
LoadRaises ==
  /\ pc = "load"
  /\ cache = Empty
  /\ LoadPath \in files
  /\ loads < MaxRetries
  /\ loads' = loads + 1
  /\ opened' = LoadPath
  /\ raisedIn' = "load"
  /\ propagated' = TRUE
  /\ buttonShown' = FALSE
  /\ pc' = "done"
  /\ UNCHANGED << files, cache, clicked, cacheHit, loadError, model, formVars,
                  frameVars, resultVars, stages, calls, col2, page >>

\* lines 71-113: the widgets return their current values
Form ==
  /\ pc = "form"
  /\ \E wd \in WidgetValues :
       /\ w' = wd
       /\ renal' = Indicator(wd.renal_input)
       /\ invasive_line' = Indicator(wd.inv_line_input)
       /\ mech_vent' = Indicator(wd.mech_vent_input)
  /\ predict_btn' = clicked
  /\ buttonShown' = TRUE
  /\ pc' = "col2"
  /\ UNCHANGED << envVars, clicked, cacheHit, loadError, model, frameVars,
                  resultVars, stages, calls, raisedIn, propagated, col2,
                  page >>

\* the branch of line 119 with its condition weakened
AssembleOr ==
  /\ pc = "col2"
  /\ predict_btn \/ model # NoModel
  /\ input_data' = InputData(w, renal, invasive_line, mech_vent)
  /\ columns' = Columns
  /\ stages' = Append(stages, "assemble")
  /\ pc' = "infer"
  /\ UNCHANGED << envVars, buttonShown, clicked, cacheHit, loadError, model,
                  formVars, resultVars, calls, raisedIn, propagated, col2,
                  page >>

\* lines 119-146: the branch taken, and the DataFrame built
Assemble ==
  /\ pc = "col2"
  /\ predict_btn /\ model # NoModel
  /\ input_data' = InputData(w, renal, invasive_line, mech_vent)
  /\ columns' = Columns
  /\ stages' = Append(stages, "assemble")
  /\ pc' = "infer"
  /\ UNCHANGED << envVars, buttonShown, clicked, cacheHit, loadError, model,
                  formVars, resultVars, calls, raisedIn, propagated, col2,
                  page >>

\* lines 243-244
ShowPrompt ==
  /\ pc = "col2"
  /\ ~(predict_btn /\ model # NoModel)
  /\ ~predict_btn
  /\ col2' = col2 \cup {"prompt"}
  /\ pc' = "footer"
  /\ UNCHANGED << envVars, buttonShown, clicked, cacheHit, loadError, model,
                  formVars, frameVars, resultVars, stages, calls, raisedIn,
                  propagated, page >>

\* lines 119, 243: neither condition holds
NoBranch ==
  /\ pc = "col2"
  /\ ~(predict_btn /\ model # NoModel)
  /\ predict_btn
  /\ pc' = "footer"
  /\ UNCHANGED << envVars, buttonShown, clicked, cacheHit, loadError, model,
                  formVars, frameVars, resultVars, stages, calls, raisedIn,
                  propagated, col2, page >>

\* line 165: predict_proba returns
InferOk ==
  /\ pc = "infer"
  /\ \E p \in ProbValues : prediction_prob' = p
  /\ calls' = calls + 1
  /\ stages' = Append(stages, "infer")
  /\ pc' = "classify"
  /\ UNCHANGED << envVars, buttonShown, clicked, cacheHit, loadError, model,
                  formVars, frameVars, risk_label, color, advisory, raisedIn,
                  propagated, col2, page >>

\* the exception of predict_proba swallowed and the block continued
InferRaisesContinue ==
  /\ pc = "infer"
  /\ calls' = calls + 1
  /\ raisedIn' = "infer"
  /\ pc' = "shap"
  /\ UNCHANGED << envVars, buttonShown, clicked, cacheHit, loadError, model,
                  formVars, frameVars, resultVars, stages, propagated, col2,
                  page >>

\* line 165: predict_proba raises
InferRaises ==
  /\ pc = "infer"
  /\ calls' = calls + 1
  /\ raisedIn' = "infer"
  /\ pc' = "except"
  /\ UNCHANGED << envVars, buttonShown, clicked, cacheHit, loadError, model,
                  formVars, frameVars, resultVars, stages, propagated, col2,
                  page >>

\* lines 168-178
Classify ==
  /\ pc = "classify"
  /\ col2' = col2 \cup {"result_header"}
  /\ risk_label' = RiskLabel(prediction_prob)
  /\ color' = Color(prediction_prob)
  /\ stages' = Append(stages, "classify")
  /\ pc' = "card"
  /\ UNCHANGED << envVars, buttonShown, clicked, cacheHit, loadError, model,
                  formVars, frameVars, prediction_prob, advisory, calls,
                  raisedIn, propagated, page >>

\* lines 180-189
RenderCard ==
  /\ pc = "card"
  /\ col2' = col2 \cup {"card"}
  /\ stages' = Append(stages, "card")
  /\ pc' = "advisory"
  /\ UNCHANGED << envVars, buttonShown, clicked, cacheHit, loadError, model,
                  formVars, frameVars, resultVars, calls, raisedIn,
                  propagated, page >>

\* lines 192-197
ShowAdvisory ==
  /\ pc = "advisory"
  /\ advisory' = Advisory(prediction_prob)
  /\ col2' = col2 \cup {Advisory(prediction_prob)}
  /\ stages' = Append(stages, "advisory")
  /\ pc' = "shap"
  /\ UNCHANGED << envVars, buttonShown, clicked, cacheHit, loadError, model,
                  formVars, frameVars, prediction_prob, risk_label, color,
                  calls, raisedIn, propagated, page >>

\* lines 200-210: TreeExplainer and shap_values return
ShapOk ==
  /\ pc = "shap"
  /\ col2' = col2 \cup {"shap_header"}
  /\ stages' = Append(stages, "shap_values")
  /\ pc' = "plot"
  /\ UNCHANGED << envVars, buttonShown, clicked, cacheHit, loadError, model,
                  formVars, frameVars, resultVars, calls, raisedIn,
                  propagated, page >>

\* lines 200-210: TreeExplainer or shap_values raises
ShapRaises ==
  /\ pc = "shap"
  /\ col2' = col2 \cup {"shap_header"}
  /\ raisedIn' = "shap"
  /\ pc' = "except"
  /\ UNCHANGED << envVars, buttonShown, clicked, cacheHit, loadError, model,
                  formVars, frameVars, resultVars, stages, calls, propagated,
                  page >>

\* lines 213-229: the waterfall plot is built and shown
PlotOk ==
  /\ pc = "plot"
  /\ col2' = col2 \cup {"why", "waterfall"}
  /\ stages' = Append(stages, "waterfall")
  /\ pc' = "footer"
  /\ UNCHANGED << envVars, buttonShown, clicked, cacheHit, loadError, model,
                  formVars, frameVars, resultVars, calls, raisedIn,
                  propagated, page >>

\* the plot step raising outside the try block
PlotRaisesUncaught ==
  /\ pc = "plot"
  /\ col2' = col2 \cup {"why"}
  /\ raisedIn' = "plot"
  /\ propagated' = TRUE
  /\ pc' = "done"
  /\ UNCHANGED << envVars, buttonShown, clicked, cacheHit, loadError, model,
                  formVars, frameVars, resultVars, stages, calls, page >>

\* lines 213-229: a step of the plot raises
PlotRaises ==
  /\ pc = "plot"
  /\ col2' = col2 \cup {"why"}
  /\ raisedIn' = "plot"
  /\ pc' = "except"
  /\ UNCHANGED << envVars, buttonShown, clicked, cacheHit, loadError, model,
                  formVars, frameVars, resultVars, stages, calls, propagated,
                  page >>

\* lines 239-241
Handler ==
  /\ pc = "except"
  /\ col2' = col2 \cup {"prediction_error", "debug_info"}
  /\ pc' = "footer"
  /\ UNCHANGED << envVars, buttonShown, clicked, cacheHit, loadError, model,
                  formVars, frameVars, resultVars, stages, calls, raisedIn,
                  propagated, page >>

\* lines 249-265
Footer ==
  /\ pc = "footer"
  /\ page' = {"disclaimer", "footer"}
  /\ pc' = "done"
  /\ UNCHANGED << envVars, buttonShown, clicked, cacheHit, loadError, model,
                  formVars, frameVars, resultVars, stages, calls, raisedIn,
                  propagated, col2 >>

Next ==
  \/ PlaceFile
  \/ RemoveFile
  \/ StartRun
  \/ LoadCached
  \/ LoadFound
  \/ LoadNotFound
  \/ LoadRaises
  \/ Form
  \/ Assemble
  \/ ShowPrompt
  \/ NoBranch
  \/ InferOk
  \/ InferRaises
  \/ Classify
  \/ RenderCard
  \/ ShowAdvisory
  \/ ShapOk
  \/ ShapRaises
  \/ PlotOk
  \/ PlotRaises
  \/ Handler
  \/ Footer

Spec == Init /\ [][Next]_vars

\* ------------------------------------------------------------ properties

\* position of a stage in this run's pipeline, 0 when it did not happen
Pos(stage) ==
  IF \E i \in 1..Len(stages) : stages[i] = stage
  THEN CHOOSE i \in 1..Len(stages) : stages[i] = stage
  ELSE 0

\* stage b happened only after stage a had happened
Requires(b, a) == Pos(b) # 0 => (Pos(a) # 0 /\ Pos(a) < Pos(b))

\* if both stages happened, a came first
Before(a, b) == (Pos(a) # 0 /\ Pos(b) # 0) => Pos(a) < Pos(b)

Rank(label) ==
  IF label = "Low Risk" THEN 1 ELSE IF label = "Moderate Risk" THEN 2 ELSE 3

\* C1: every probability the model returns gets exactly one tier, Low Risk
\* iff p < 0.2, Moderate Risk iff 0.2 <= p < 0.5, High Risk iff p >= 0.5; the
\* tier never decreases when p grows.
C1_RiskTier ==
  risk_label # Unset =>
    /\ risk_label \in {"Low Risk", "Moderate Risk", "High Risk"}
    /\ risk_label = "Low Risk" <=> prediction_prob < 20
    /\ risk_label = "Moderate Risk" <=>
         (20 <= prediction_prob /\ prediction_prob < 50)
    /\ risk_label = "High Risk" <=> prediction_prob >= 50
    /\ \A q \in ProbValues :
         q <= prediction_prob => Rank(RiskLabel(q)) <= Rank(risk_label)

C1_Witness ==
  /\ pc = "done"
  /\ prediction_prob = 20
  /\ risk_label = "Moderate Risk"

\* C2: the record handed to the model has the ten columns in the fixed order
\* and each column holds the value of the widget of the same meaning.
C2_FeatureOrder ==
  input_data # << >> =>
    /\ columns = << "platelets_min", "riss", "sbp_min", "bun_max",
                    "temperature_max", "admission_age", "renal",
                    "invasive_line_1stday", "mechvent", "sofa_1stday" >>
    /\ Len(input_data) = 10
    /\ input_data[1] = w.platelets
    /\ input_data[2] = w.riss
    /\ input_data[3] = w.sbp
    /\ input_data[4] = w.bun
    /\ input_data[5] = w.temp
    /\ input_data[6] = w.age
    /\ input_data[7] = renal
    /\ input_data[8] = invasive_line
    /\ input_data[9] = mech_vent
    /\ input_data[10] = w.sofa

C2_Witness ==
  /\ pc = "infer"
  /\ w.sbp = 40
  /\ w.bun = 2000
  /\ w.platelets = 1000
  /\ w.age = 120
  /\ input_data[3] = 40

ResultItems ==
  {"result_header", "card", "success_low", "warning_moderate", "error_high",
   "shap_header", "why", "waterfall", "prediction_error", "debug_info"}

\* C3 as stated: a run calls predict_proba once when the button was pressed
\* and the model is loaded and never otherwise, and every run in which the
\* button was not pressed shows the prompt and no result.
C3_Original ==
  /\ calls <= (IF clicked /\ model = RF THEN 1 ELSE 0)
  /\ pc = "done" =>
       /\ calls = (IF clicked /\ model = RF THEN 1 ELSE 0)
       /\ ~clicked => ("prompt" \in col2 /\ col2 \cap ResultItems = {})

\* C3 amended: as above, but the prompt is promised only for the runs that
\* load_model did not end with an exception.
C3_SingleInference ==
  /\ calls <= (IF clicked /\ model = RF THEN 1 ELSE 0)
  /\ pc = "done" =>
       /\ calls = (IF clicked /\ model = RF THEN 1 ELSE 0)
       /\ (~clicked /\ raisedIn # "load") =>
            ("prompt" \in col2 /\ col2 \cap ResultItems = {})

C3_Witness ==
  /\ pc = "done"
  /\ clicked
  /\ model = RF
  /\ calls = 1

\* C4 as stated: assembly, inference, classification, attribution and plot,
\* and last of all the rendered prediction output.
C4_Original ==
  /\ Requires("infer", "assemble")
  /\ Requires("classify", "infer")
  /\ Requires("shap_values", "classify")
  /\ Requires("waterfall", "shap_values")
  /\ Requires("shap_values", "infer")
  /\ Before("shap_values", "card")
  /\ Before("waterfall", "card")
  /\ Before("waterfall", "advisory")

\* C4 amended: assembly, inference, classification, the rendered result card
\* and advisory message, then the attribution computation, and the plot last;
\* no attribution step without a successful inference before it in the run.
C4_PipelineOrder ==
  /\ Requires("infer", "assemble")
  /\ Requires("classify", "infer")
  /\ Requires("card", "classify")
  /\ Requires("advisory", "card")
  /\ Requires("shap_values", "advisory")
  /\ Requires("waterfall", "shap_values")
  /\ Requires("shap_values", "infer")
  /\ pc \in {"plot", "except"} /\ raisedIn # "infer" => Pos("infer") # 0
  /\ Pos("waterfall") # 0 => Pos("waterfall") = Len(stages)

C4_Witness ==
  /\ pc = "done"
  /\ stages = << "assemble", "infer", "classify", "card", "advisory",
                 "shap_values", "waterfall" >>

\* C5: an exception of the inference call or of an attribution or plot step
\* is caught and shown as the prediction error; it does not leave the run,
\* and the run goes on to render the disclaimer and the footer.
C5_ExceptionsCaught ==
  raisedIn \in {"infer", "shap", "plot"} =>
    /\ ~propagated
    /\ pc \in {"except", "footer", "done"}
    /\ pc \in {"footer", "done"} => "prediction_error" \in col2
    /\ pc = "done" => {"disclaimer", "footer"} \subseteq page

C5_Witness ==
  /\ pc = "done"
  /\ raisedIn = "plot"
  /\ "prediction_error" \in col2
  /\ "card" \in col2

\* C6: the file load_model opens is the file its comment and its not-found
\* message name.
C6_SameFile ==
  opened # NoPath =>
    /\ opened = DocPath
    /\ loadError # NoPath => loadError = opened

\* C7: renal, invasive_line_1stday and mechvent are 1 iff the selection is
\* "Yes" and 0 otherwise.
C7_BinaryIndicators ==
  /\ w # NoWidgets =>
       /\ {renal, invasive_line, mech_vent} \subseteq {0, 1}
       /\ renal = 1 <=> w.renal_input = "Yes"
       /\ invasive_line = 1 <=> w.inv_line_input = "Yes"
       /\ mech_vent = 1 <=> w.mech_vent_input = "Yes"
  /\ input_data # << >> =>
       /\ {input_data[7], input_data[8], input_data[9]} \subseteq {0, 1}
       /\ input_data[7] = 1 <=> w.renal_input = "Yes"
       /\ input_data[8] = 1 <=> w.inv_line_input = "Yes"
       /\ input_data[9] = 1 <=> w.mech_vent_input = "Yes"

C7_Witness ==
  /\ pc = "infer"
  /\ w.renal_input = "Yes"
  /\ w.inv_line_input = "No"
  /\ w.mech_vent_input = "Yes"
  /\ input_data[7] = 1
  /\ input_data[8] = 0

\* C8: the label in the result card and the advisory message below it denote
\* the same tier, at 0.2 and 0.5 too.
C8_CascadesAgree ==
  advisory # Unset =>
    \/ risk_label = "Low Risk" /\ advisory = "success_low"
    \/ risk_label = "Moderate Risk" /\ advisory = "warning_moderate"
    \/ risk_label = "High Risk" /\ advisory = "error_high"

C8_Witness ==
  /\ pc = "shap"
  /\ prediction_prob = 50
  /\ risk_label = "High Risk"
  /\ advisory = "error_high"

\* C9: every run in which the Predict button was pressed renders something in
\* the result column.
C9_PressedRenders == (pc = "done" /\ clicked) => col2 # {}

\* C10 as stated: the process reads the model file at most once.
C10_Original == loads <= 1

\* C10 amended: a load_model call that returns, with a model or with None, is
\* cached; from then on no run calls joblib.load and every run gets the cached
\* value, None included, whatever happens to the files.  (A call that raises
\* is not cached and the next run reads the file again.)
C10_CachedOnce ==
  [][ /\ (pc = "load" /\ pc' = "form") => (cache' # Empty /\ model' = cache')
      /\ cache # Empty => (cache' = cache /\ loads' = loads)
    ]_vars

C10_Witness ==
  /\ pc = "done"
  /\ cacheHit
  /\ model = NoModel
  /\ LoadPath \in files
  /\ loads = 1

====
